---- MODULE Spec2Model ----
(***************************************************************************)
(* VideoCrush: the encode session of CompressionWorker                     *)
(* (src/video_compressor.py).  One worker thread executes run(), which     *)
(* drives up to two encoder processes through _run_ffmpeg(); the GUI       *)
(* thread may call cancel() at any moment.  The encoder processes and the  *)
(* file system are the environment.                                        *)
(***************************************************************************)
EXTENDS Integers, Sequences, FiniteSets, TLC

(* ------------------------------------------------------------------ *)
(* Bounds of the model                                                 *)
(* ------------------------------------------------------------------ *)

\* Most progress timestamps one encoder process reports in its diagnostics.
MaxEvents == 1

(* ------------------------------------------------------------------ *)
(* Program constants                                                   *)
(* ------------------------------------------------------------------ *)

\* video_kbps < 50 is rejected (line 245).
MinVideoKbps == 50

\* stream.get('bit_rate', 128000) (line 235).
DefaultSrcBitRate == 128000

\* VIDEO_CODECS (line 46).
VideoCodecs == {"libx264", "libx265", "libvpx-vp9", "libsvtav1"}

\* The values start_compression's audio_map gives (line 716).
AudioCodecs == {"aac", "copy", "an"}

\* The suffixes the cleanup loop tries (line 360).
Suffixes == {"", "-0.log", "-0.log.mbtree", ".log", ".log.mbtree"}

\* The pass-log files a first pass (-pass 1 -passlogfile .../ffmpeg2pass, lines
\* 283 and 291) leaves: the statistics log and, for the x264 family, the
\* macroblock-tree file.
PassLogFiles(codec) ==
    IF codec = "libvpx-vp9" THEN {"-0.log"} ELSE {"-0.log", "-0.log.mbtree"}

(* ------------------------------------------------------------------ *)
(* Inputs                                                              *)
(* ------------------------------------------------------------------ *)

TargetMBs == {1, 25}
AudioBitrates == {128}
Durations == {0, 600}
\* The source's first audio stream as ffprobe reports it.
SrcAudios == {"nostream", "nobitrate", "br64000"}
\* Seconds of the timestamps (time=HH:MM:SS.ff) an encoder may report.
TimeStamps == {300, 700}
\* What os.path.getsize answers for the input and for the output.
InSizes == {0, 1000}
OutSizes == {400, 1500}

\* The requests the planner is examined on: sizes from 1 MB to 63 MB, sources
\* from ten minutes to nearly three hours, both AAC bitrates of interest.
PlanTargetMBs == {1, 5, 25, 62, 63}
PlanAudioBitrates == {64, 128}
PlanDurations == {0, 600, 3600, 10000}
PlanInfos == {[ok |-> FALSE, duration |-> 0, audio |-> "nostream"]}
             \cup [ok : {TRUE}, duration : PlanDurations, audio : SrcAudios]

\* probe_video: None, or the metadata document.
Infos == {[ok |-> FALSE, duration |-> 0, audio |-> "nostream"]}
         \cup [ok : {TRUE}, duration : Durations, audio : SrcAudios]

VARIABLES
    \* the request (CompressionWorker.__init__)
    video_codec, audio_codec, target_mb, audio_bitrate,
    \* what the host answers: find_ffmpeg() and probe_video()
    ffmpegFound, info,
    \* the worker thread
    pc,            \* position in run() / _run_ffmpeg()
    pass,          \* pass_num of the current _run_ffmpeg call
    cancelled,     \* self._cancelled
    bufTail,       \* whether buffer holds text after the last carriage return
    events,        \* timestamps the current process has reported so far
    plan,          \* the locals video_kbps and audio_kbps once planned
    cmds,          \* per pass, the command line handed to Popen
    \* the encoder processes, by pass
    procState,     \* "none", "running", "exited" (not yet waited on), "reaped"
    returncode,    \* -1 while unknown
    \* the file system
    outFile,       \* "absent", "old", "partial", "complete"
    sidecars,      \* the suffixes of the pass-log files that exist
    \* the signals emitted
    nError, nFinished, statuses, progress, failDetail,
    errorKind,     \* which message error carried
    result,        \* the dict finished carried
    in_size,       \* the local in_size of the report (line 348)
    \* the diagnostic stream of the current encoder, character by character
    diag,          \* everything the encoder has written to stderr
    written,       \* in how many writes
    stream,        \* what has not been read yet
    buffer,        \* the local buffer of _run_ffmpeg
    warned,        \* the texts logged as warnings at line 403
    detailText,    \* the text logged at line 409
    \* a second session, started by another worker or another instance
    peer,          \* where it stands and in which directory its output lies
    peerFiles,     \* the pass-log files in its directory, when not ours
    \* the window
    compress_btn,  \* compress_btn.isEnabled()
    handled,       \* the terminal signals whose slot has run
    \* history
    cancelAt,      \* what was going on when cancel() was called
    examined,      \* per pass: the cancel flag as read at line 406
    outputWritten, \* an encoder of this session wrote to output_path
    sidecarsWritten, cleanupAttempted

vars == <<video_codec, audio_codec, target_mb, audio_bitrate, ffmpegFound, info,
          in_size, pc, pass, cancelled, bufTail, events, plan, cmds,
          procState, returncode,
          outFile, sidecars, nError, nFinished, statuses, progress, failDetail,
          errorKind, result, diag, written, stream, buffer, warned, detailText,
          peer, peerFiles, compress_btn, handled,
          cancelAt, examined, outputWritten, sidecarsWritten, cleanupAttempted>>

request == <<video_codec, audio_codec, target_mb, audio_bitrate, ffmpegFound, info>>
built == <<plan, cmds>>
outcome == <<errorKind, result, in_size>>
signals == <<nError, nFinished, statuses, progress, failDetail, outcome>>
parser == <<diag, written, stream, buffer, warned, detailText>>
peers == <<peer, peerFiles>>
gui == <<compress_btn, handled>>
files == <<outFile, sidecars, outputWritten, sidecarsWritten, cleanupAttempted>>
procs == <<procState, returncode>>

Passes == {1, 2}

(* ------------------------------------------------------------------ *)
(* Bitrate planning (run, lines 227-247)                               *)
(* ------------------------------------------------------------------ *)

TargetBits(mb) == mb * 8 * 1024 * 1024

SrcBitRate(a) == IF a = "br64000" THEN 64000 ELSE DefaultSrcBitRate

\* Variant: 128 kbps is assumed for a source without audio stream too.
AudioKbps_DefaultWithoutStream(codec, bitrate, src) ==
    IF codec = "copy"
    THEN SrcBitRate(src) \div 1000
    ELSE IF codec = "an" THEN 0 ELSE bitrate

\* Lines 229-236: the bitrate of the first audio stream under 'copy', found
\* by the loop over the streams; 0 stays when the loop finds none.
AudioKbps(codec, bitrate, src) ==
    IF codec = "copy"
    THEN IF src = "nostream" THEN 0 ELSE SrcBitRate(src) \div 1000
    ELSE IF codec = "an" THEN 0 ELSE bitrate

AudioBits(kbps, dur) == kbps * 1000 * dur

VideoBits(mb, kbps, dur) == TargetBits(mb) - AudioBits(kbps, dur)

\* Variant: the quotient is rounded up.
VideoKbps_RoundedUp(mb, kbps, dur) == ((VideoBits(mb, kbps, dur) \div dur) \div 1000) + 1

\* video_kbps = int(video_bits / duration / 1000)
VideoKbps(mb, kbps, dur) == (VideoBits(mb, kbps, dur) \div dur) \div 1000

audio_kbps == AudioKbps(audio_codec, audio_bitrate, info.audio)
duration == info.duration
\* Variant: the audio is left out of the budget.
video_bits_IgnoringAudio == TargetBits(target_mb)

video_bits == VideoBits(target_mb, audio_kbps, duration)
\* Variant: the rate is taken in kilobytes per second.
video_kbps_InBytes == VideoKbps(target_mb, audio_kbps, duration) \div 8

video_kbps == VideoKbps(target_mb, audio_kbps, duration)

is_av1 == video_codec = "libsvtav1"

\* Variant: the single-pass codec is let through.
BitrateTooLowCond_NotAv1 == ~is_av1 /\ video_kbps < MinVideoKbps

\* Variant: only a bitrate of zero is rejected.
BitrateTooLowCond_ZeroFloor == video_kbps <= 0

\* if video_kbps < 50 (line 245)
BitrateTooLowCond == video_kbps < MinVideoKbps

Min(a, b) == IF a < b THEN a ELSE b

\* pct = min(int(current / duration * 100), 100) if duration > 0 else 0
Percent(current, dur) == IF dur > 0 THEN Min((current * 100) \div dur, 100) ELSE 0

\* Before planning, before Popen, before finished.
NoPlan == [video_kbps |-> -1, audio_kbps |-> -1]
NoCmd == [bv |-> -1, passArg |-> 0, passlog |-> FALSE, tbr |-> -1,
          audio |-> "none", sink |-> "none"]
NoResult == [size |-> -1, num |-> 0, den |-> 1]
NoPeer == [phase |-> "none", dir |-> "none"]

(* ------------------------------------------------------------------ *)
(* Initial state: a constructed worker, not yet started                *)
(* ------------------------------------------------------------------ *)

\* Everything __init__ and the first lines of run set, whatever the request.
Constructed ==
    /\ pc = "start"
    /\ pass = 1
    /\ cancelled = FALSE
    /\ bufTail = FALSE
    /\ events = 0
    /\ procState = [p \in Passes |-> "none"]
    /\ returncode = [p \in Passes |-> -1]
    /\ outFile \in {"absent", "old"}
    /\ sidecars = {}
    /\ nError = 0
    /\ nFinished = 0
    /\ statuses = <<>>
    /\ progress = <<>>
    /\ failDetail = [p \in Passes |-> FALSE]
    /\ plan = NoPlan
    /\ cmds = [p \in Passes |-> NoCmd]
    /\ errorKind = "none"
    /\ result = NoResult
    /\ in_size = -1
    /\ diag = <<>>
    /\ written = 0
    /\ stream = <<>>
    /\ buffer = <<>>
    /\ warned = <<>>
    /\ detailText = <<>>
    /\ peer = NoPeer
    /\ peerFiles = {}
    /\ compress_btn = FALSE
    /\ handled = {}
    /\ cancelAt = "never"
    /\ examined = [p \in Passes |-> "no"]
    /\ outputWritten = FALSE
    /\ sidecarsWritten = {}
    /\ cleanupAttempted = FALSE

Init ==
    /\ video_codec \in VideoCodecs
    /\ audio_codec \in AudioCodecs
    /\ target_mb \in TargetMBs
    /\ audio_bitrate \in AudioBitrates
    /\ ffmpegFound \in BOOLEAN
    /\ info \in Infos
    \* the streams are read under 'copy' only (line 232): one source stands
    \* for all under the other audio codecs
    /\ audio_codec # "copy" => info.audio = "nostream"
    /\ Constructed

(* ------------------------------------------------------------------ *)
(* cancel() (lines 206-207), called from the GUI thread                *)
(* ------------------------------------------------------------------ *)

Phase ==
    IF pc \in {"report", "cleanup"} THEN "reported"
    ELSE IF procState[2] = "running" THEN "pass2"
    ELSE IF procState[2] # "none" THEN "after2"
    ELSE IF procState[1] = "running" THEN "pass1"
    ELSE IF procState[1] # "none" THEN "after1"
    ELSE "before"

\* A flag set after run has returned is read by nobody.
Cancel ==
    /\ pc # "done"
    /\ ~cancelled
    /\ cancelled' = TRUE
    /\ cancelAt' = Phase
    /\ UNCHANGED <<request, peers, gui, parser, built, pc, pass, bufTail, events, procs, files, signals, examined>>

(* ------------------------------------------------------------------ *)
(* run(): locating the encoder, probing, planning (lines 211-247)      *)
(* ------------------------------------------------------------------ *)

\* An error carrying the message of kind is emitted and run returns.
Fail(kind) ==
    /\ nError' = nError + 1
    /\ errorKind' = kind
    /\ pc' = "done"
    /\ UNCHANGED <<request, peers, gui, parser, built, pass, cancelled, bufTail, events, procs,
                   files, nFinished, statuses, progress, failDetail, result, in_size,
                   cancelAt, examined>>

FfmpegNotFound ==
    /\ pc = "start"
    /\ ~ffmpegFound
    /\ Fail("ToolNotFound")

ProbeFailed ==
    /\ pc = "start"
    /\ ffmpegFound
    /\ ~info.ok
    /\ Fail("ProbeFailed")

InvalidDuration ==
    /\ pc = "start"
    /\ ffmpegFound
    /\ info.ok
    /\ duration <= 0
    /\ Fail("InvalidDuration")

InsufficientBudget ==
    /\ pc = "start"
    /\ ffmpegFound
    /\ info.ok
    /\ duration > 0
    /\ video_bits <= 0
    /\ Fail("InsufficientBudget")

BitrateTooLow ==
    /\ pc = "start"
    /\ ffmpegFound
    /\ info.ok
    /\ duration > 0
    /\ video_bits > 0
    /\ BitrateTooLowCond
    /\ Fail("BitrateTooLow")

\* Lines 269-271, and for libsvtav1, whose first pass is skipped (line 294),
\* lines 304-306 as well.
StatusPass1 == "Pass 1/2 - Analyzing..."
StatusPass2 == "Pass 2/2 - Encoding..."
StatusCancelled == "Cancelled"

\* Variant: the second pass starts without announcing 0.
ResetProgress_None(p) == p

\* self.progress.emit(0) (line 306)
ResetProgress(p) == Append(p, 0)

PlanOk ==
    /\ pc = "start"
    /\ ffmpegFound
    /\ info.ok
    /\ duration > 0
    /\ video_bits > 0
    /\ ~BitrateTooLowCond
    /\ IF is_av1
       THEN /\ statuses' = statuses \o <<StatusPass1, StatusPass2>>
            /\ progress' = ResetProgress(progress)
            /\ pass' = 2
       ELSE /\ statuses' = Append(statuses, StatusPass1)
            /\ UNCHANGED <<progress, pass>>
    /\ plan' = [video_kbps |-> video_kbps, audio_kbps |-> audio_kbps]
    /\ pc' = "spawn"
    /\ UNCHANGED <<request, peers, gui, parser, cmds, cancelled, bufTail, events, procs, files,
                   nError, nFinished, failDetail, outcome, cancelAt, examined>>

\* The command lines (lines 273-292 and 308-333), as far as the rate control,
\* the pass log, the audio and the output sink go.
AudioArg ==
    IF audio_codec = "an" THEN "an"
    ELSE IF audio_codec = "copy" THEN "copy" ELSE "encode"

\* Variant: the first pass encodes the audio as well.
pass1_cmd_WithAudio ==
    [bv |-> plan.video_kbps, passArg |-> 1, passlog |-> TRUE, tbr |-> -1,
     audio |-> AudioArg, sink |-> "null"]

pass1_cmd ==
    [bv |-> plan.video_kbps, passArg |-> 1, passlog |-> TRUE, tbr |-> -1,
     audio |-> "an", sink |-> "null"]

pass2_cmd ==
    [bv |-> plan.video_kbps,
     passArg |-> IF is_av1 THEN 0 ELSE 2,
     passlog |-> ~is_av1,
     tbr |-> IF is_av1 THEN plan.video_kbps ELSE -1,
     audio |-> AudioArg,
     sink |-> "output"]

(* ------------------------------------------------------------------ *)
(* _run_ffmpeg (lines 369-410)                                         *)
(* ------------------------------------------------------------------ *)

\* subprocess.Popen (line 372) starts the encoder of the current pass.
SpawnOk ==
    /\ pc = "spawn"
    /\ procState' = [procState EXCEPT ![pass] = "running"]
    /\ cmds' = [cmds EXCEPT ![pass] = IF pass = 1 THEN pass1_cmd ELSE pass2_cmd]
    /\ bufTail' = FALSE
    /\ events' = 0
    /\ buffer' = <<>>
    /\ diag' = <<>> /\ written' = 0 /\ stream' = <<>>
    /\ pc' = "loop"
    /\ UNCHANGED <<request, peers, gui, warned, detailText, plan, pass, cancelled, returncode, files, signals,
                   cancelAt, examined>>

\* subprocess.Popen raises; run's handler (lines 366-367) emits the error.
SpawnFails ==
    /\ pc = "spawn"
    /\ Fail("ProcessSpawnFailed")

\* Variant: the read loop never looks at the flag.
LoopSeesCancel_Never == FALSE

\* if self._cancelled (line 379)
LoopSeesCancel == cancelled

\* Variant: the process is terminated but not waited on.
TerminateNoWait(p) == [procState EXCEPT ![p] = "exited"]

\* proc.terminate(); proc.wait() (lines 380-381)
TerminateAndWait(p) == [procState EXCEPT ![p] = "reaped"]

\* The top of the read loop with the flag set: terminate, wait, return.
LoopCancelled ==
    /\ pc = "loop"
    /\ LoopSeesCancel
    /\ procState' = TerminateAndWait(pass)
    /\ returncode' = IF procState[pass] = "running"
                     THEN [returncode EXCEPT ![pass] = -15]
                     ELSE returncode
    /\ pc' = "after"
    /\ UNCHANGED <<request, peers, gui, parser, built, pass, cancelled, bufTail, events, files, signals,
                   cancelAt, examined>>

\* The top of the read loop with the flag clear: go on to read.
LoopContinue ==
    /\ pc = "loop"
    /\ ~LoopSeesCancel
    /\ pc' = "read"
    /\ UNCHANGED <<request, peers, gui, parser, built, pass, cancelled, bufTail, events, procs, files,
                   signals, cancelAt, examined>>

\* proc.stderr.read(256) returns text that completes no progress line
\* (lines 384-391).
ReadQuietChunk ==
    /\ pc = "read"
    /\ procState[pass] = "running"
    /\ \E tail \in BOOLEAN : bufTail' = tail
    /\ pc' = "loop"
    /\ UNCHANGED <<request, peers, gui, parser, built, pass, cancelled, events, procs, files, signals,
                   cancelAt, examined>>

\* proc.stderr.read(256) returns text that completes a line carrying the
\* timestamp t (lines 384-399).
ReadProgressChunk(t) ==
    /\ pc = "read"
    /\ procState[pass] = "running"
    /\ events < MaxEvents
    /\ events' = events + 1
    /\ progress' = Append(progress, Percent(t, duration))
    /\ \E tail \in BOOLEAN : bufTail' = tail
    /\ pc' = "loop"
    /\ UNCHANGED <<request, peers, gui, parser, built, pass, cancelled, procs, files, nError,
                   nFinished, statuses, failDetail, outcome, cancelAt, examined>>

\* Variant: the loop's last percent stands.
FinalProgress_None(p) == p

\* self.progress.emit(100) (line 410)
FinalProgress(p) == Append(p, 100)

\* remaining[-500:] (line 409)
TailLimit == 500

\* What str.strip() removes at both ends.
Whitespace == {" ", "\n", "\t", "\r"}

RECURSIVE StripLeft(_)
StripLeft(s) ==
    IF s # <<>> /\ Head(s) \in Whitespace THEN StripLeft(Tail(s)) ELSE s

RECURSIVE StripRight(_)
StripRight(s) ==
    IF s # <<>> /\ s[Len(s)] \in Whitespace
    THEN StripRight(SubSeq(s, 1, Len(s) - 1))
    ELSE s

\* text.strip()
Strip(s) == StripRight(StripLeft(s))

\* Variant: the whole text is taken.
LastChars_Unbounded(s, n) == s

\* s[-n:]
LastChars(s, n) == IF Len(s) <= n THEN s ELSE SubSeq(s, Len(s) - n + 1, Len(s))

\* Variant: the exit status is reported whatever the cancel flag says.
EmitsFailureDetail_IgnoringCancel(rc) == rc # 0 /\ bufTail

\* if proc.returncode != 0 and not self._cancelled: ... if remaining (406-408)
EmitsFailureDetail(rc) == rc # 0 /\ ~cancelled /\ bufTail

\* proc.wait() (line 405)
WaitAfterEof(p) == [procState EXCEPT ![p] = "reaped"]

\* read returns b'' (the encoder has exited): break, wait, examine the exit
\* status, emit 100, return (lines 385-386, 405-410).
EndOfStream ==
    /\ pc = "read"
    /\ procState[pass] = "exited"
    /\ stream = <<>>
    /\ procState' = WaitAfterEof(pass)
    /\ examined' = [examined EXCEPT ![pass] = IF cancelled THEN "set" ELSE "clear"]
    /\ failDetail' = [failDetail EXCEPT ![pass] = EmitsFailureDetail(returncode[pass])]
    /\ detailText' = IF EmitsFailureDetail(returncode[pass])
                     THEN LastChars(Strip(buffer), TailLimit)
                     ELSE detailText
    /\ progress' = FinalProgress(progress)
    /\ pc' = "after"
    /\ UNCHANGED <<request, peers, gui, diag, written, stream, buffer, warned, built, pass, cancelled, bufTail, events,
                   returncode, files, nError, nFinished, statuses, outcome, cancelAt>>

(* ------------------------------------------------------------------ *)
(* run(): after each pass (lines 298-364)                              *)
(* ------------------------------------------------------------------ *)

\* Variant: the flag is not looked at between the passes.
StopAfterPass1_Never == FALSE

\* if self._cancelled (line 298)
StopAfterPass1 == cancelled

\* Variant: the flag is not looked at after the final pass.
StopAfterPass2_Never == FALSE

\* if self._cancelled (line 338)
StopAfterPass2 == cancelled

\* Variant: the cancelled branch lacks its return and falls into the report.
AfterCancelPass2_FallThrough == "report"

\* return (line 343)
AfterCancelPass2 == "done"

\* Variant: the cancelled branch leaves the output file alone.
RemoveOutput_Skipped == outFile

\* if os.path.exists(self.output_path): os.remove(self.output_path)
\* (lines 341-342); the removal is taken to succeed.
RemoveOutput == "absent"

AfterPass1Cancelled ==
    /\ pc = "after"
    /\ pass = 1
    /\ StopAfterPass1
    /\ statuses' = Append(statuses, StatusCancelled)
    /\ pc' = "done"
    /\ UNCHANGED <<request, peers, gui, parser, built, pass, cancelled, bufTail, events, procs,
                   files, nError, nFinished, progress, failDetail, outcome, cancelAt,
                   examined>>

\* Lines 304-335: the second pass is announced and its command built.
AfterPass1Continue ==
    /\ pc = "after"
    /\ pass = 1
    /\ ~StopAfterPass1
    /\ statuses' = Append(statuses, StatusPass2)
    /\ progress' = ResetProgress(progress)
    /\ pass' = 2
    /\ pc' = "spawn"
    /\ UNCHANGED <<request, peers, gui, parser, built, cancelled, bufTail, events, procs, files,
                   nError, nFinished, failDetail, outcome, cancelAt, examined>>

AfterPass2Cancelled ==
    /\ pc = "after"
    /\ pass = 2
    /\ StopAfterPass2
    /\ statuses' = Append(statuses, StatusCancelled)
    /\ outFile' = RemoveOutput
    /\ pc' = AfterCancelPass2
    /\ UNCHANGED <<request, peers, gui, parser, built, pass, cancelled, bufTail, events, procs, sidecars,
                   outputWritten, sidecarsWritten, cleanupAttempted,
                   nError, nFinished, progress, failDetail, outcome, cancelAt,
                   examined>>

\* Line 338 with the flag clear: go on to the report.
AfterPass2Continue ==
    /\ pc = "after"
    /\ pass = 2
    /\ ~StopAfterPass2
    /\ pc' = "report"
    /\ UNCHANGED <<request, peers, gui, parser, built, pass, cancelled, bufTail, events, procs, files,
                   signals, cancelAt, examined>>

\* Variant: the ratio is computed without looking at in_size first.
Ratio_Unguarded(isz, osz) == [num |-> (isz - osz) * 100, den |-> isz]

\* ratio = (1 - out_size / in_size) * 100 if in_size > 0 else 0 (line 349), as
\* the fraction num / den.
Ratio(isz, osz) ==
    IF isz > 0 THEN [num |-> (isz - osz) * 100, den |-> isz]
    ELSE [num |-> 0, den |-> 1]

\* if os.path.exists(self.output_path) (line 346)
OutputExists == outFile # "absent"

\* Lines 346-354: the output file exists; the sizes are read and finished is
\* emitted with the output size and the ratio.
ReportFinished ==
    /\ pc = "report"
    /\ OutputExists
    /\ \E isz \in InSizes, osz \in OutSizes :
           /\ in_size' = isz
           /\ result' = [size |-> osz, num |-> Ratio(isz, osz).num,
                         den |-> Ratio(isz, osz).den]
    /\ nFinished' = nFinished + 1
    /\ pc' = "cleanup"
    /\ UNCHANGED <<request, peers, gui, parser, built, pass, cancelled, bufTail, events, procs,
                   files, nError, statuses, progress, failDetail, errorKind,
                   cancelAt, examined>>

\* Lines 355-356: no output file; the error is emitted and run goes on to the
\* cleanup.
ReportMissing ==
    /\ pc = "report"
    /\ ~OutputExists
    /\ nError' = nError + 1
    /\ errorKind' = "OutputMissing"
    /\ pc' = "cleanup"
    /\ UNCHANGED <<request, peers, gui, parser, built, pass, cancelled, bufTail, events, procs,
                   files, nFinished, statuses, progress, failDetail, result, in_size,
                   cancelAt, examined>>

Report == ReportFinished \/ ReportMissing

\* Lines 359-364: every existing pass-log file is removed; a removal that
\* raises is ignored and leaves its file.
Cleanup ==
    /\ pc = "cleanup"
    /\ \E kept \in SUBSET sidecars : sidecars' = kept
    /\ cleanupAttempted' = TRUE
    /\ pc' = "done"
    /\ UNCHANGED <<request, peers, gui, parser, built, pass, cancelled, bufTail, events, procs, outFile,
                   outputWritten, sidecarsWritten, signals, cancelAt, examined>>

(* ------------------------------------------------------------------ *)
(* The encoder processes                                               *)
(* ------------------------------------------------------------------ *)

\* The running first pass writes its pass-log files.
ProcWriteSidecar ==
    /\ procState[1] = "running"
    /\ sidecarsWritten = {}
    /\ sidecars' = sidecars \cup PassLogFiles(video_codec)
    /\ sidecarsWritten' = PassLogFiles(video_codec)
    /\ UNCHANGED <<request, peers, gui, parser, built, pc, pass, cancelled, bufTail, events, procs, outFile,
                   outputWritten, cleanupAttempted, signals, cancelAt, examined>>

\* The second pass (ffmpeg -y ... output_path, lines 308, 333) opens its output.
ProcWriteOutput ==
    /\ procState[2] = "running"
    /\ outFile \in {"absent", "old"}
    /\ outFile' = "partial"
    /\ outputWritten' = TRUE
    /\ UNCHANGED <<request, peers, gui, parser, built, pc, pass, cancelled, bufTail, events, procs, sidecars,
                   sidecarsWritten, cleanupAttempted, signals, cancelAt, examined>>

\* An encoder exits by itself with status rc; a second pass that succeeds has
\* completed the file it was writing.
ProcExit(p, rc) ==
    /\ procState[p] = "running"
    /\ procState' = [procState EXCEPT ![p] = "exited"]
    /\ returncode' = [returncode EXCEPT ![p] = rc]
    /\ outFile' = IF p = 2 /\ rc = 0 /\ outFile = "partial" THEN "complete" ELSE outFile
    /\ UNCHANGED <<request, peers, gui, parser, built, pc, pass, cancelled, bufTail, events, sidecars,
                   outputWritten, sidecarsWritten, cleanupAttempted, signals,
                   cancelAt, examined>>

ExitCodes == {0, 1}

(* ------------------------------------------------------------------ *)
(* The specification                                                   *)
(* ------------------------------------------------------------------ *)

Worker ==
    \/ FfmpegNotFound
    \/ ProbeFailed
    \/ InvalidDuration
    \/ InsufficientBudget
    \/ BitrateTooLow
    \/ PlanOk
    \/ SpawnOk
    \/ SpawnFails
    \/ LoopCancelled
    \/ LoopContinue
    \/ ReadQuietChunk
    \/ \E t \in TimeStamps : ReadProgressChunk(t)
    \/ EndOfStream
    \/ AfterPass1Cancelled
    \/ AfterPass1Continue
    \/ AfterPass2Cancelled
    \/ AfterPass2Continue
    \/ Report
    \/ Cleanup

Encoder ==
    \/ ProcWriteSidecar
    \/ ProcWriteOutput
    \/ \E p \in Passes, rc \in ExitCodes : ProcExit(p, rc)

Next == Worker \/ Encoder \/ Cancel

Spec == Init /\ [][Next]_vars

\* The worker thread keeps running; a blocked read returns as soon as the
\* encoder delivers a chunk or closes its stream.
FairSpec == Spec /\ WF_vars(Worker)

TypeOK ==
    /\ pc \in {"start", "spawn", "loop", "read", "after", "report", "cleanup", "done"}
    /\ pass \in Passes
    /\ cancelled \in BOOLEAN
    /\ procState \in [Passes -> {"none", "running", "exited", "reaped"}]
    /\ outFile \in {"absent", "old", "partial", "complete"}
    /\ sidecars \subseteq Suffixes

(* ------------------------------------------------------------------ *)
(* Terminal outcomes                                                   *)
(* ------------------------------------------------------------------ *)

\* How many times status "Cancelled" was emitted.
NCancelled == Cardinality({i \in DOMAIN statuses : statuses[i] = StatusCancelled})

CancelledEmitted == NCancelled > 0

\* Terminal outcomes emitted so far: finished, error, status Cancelled.
Terminals == nFinished + nError + NCancelled

\* Spawned and not yet waited on.
Alive(p) == procState[p] \in {"running", "exited"}

(* ------------------------------------------------------------------ *)
(* Claims                                                              *)
(* ------------------------------------------------------------------ *)

\* C1: when run has returned, every pass-log file the session's passes wrote
\* has been deleted, or the cleanup loop has at least tried to delete it.
C1_SidecarsCleanedOnEveryExit ==
    pc = "done" => (sidecarsWritten \cap sidecars = {} \/ cleanupAttempted)

\* C2: if cancel() is called while the first-pass encoder is running, the
\* second-pass encoder is never spawned, nothing is written to output_path,
\* and the session, once over, has emitted Cancelled and nothing else.
C2_CancelInPass1 ==
    cancelAt = "pass1" =>
        /\ ~is_av1
        /\ procState[2] = "none"
        /\ ~outputWritten
        /\ pc = "done" => (CancelledEmitted /\ nFinished = 0 /\ nError = 0)

C2_Witness ==
    /\ cancelAt = "pass1"
    /\ pc = "done"
    /\ video_codec = "libvpx-vp9"
    /\ sidecars # {}

\* C3: if the first-pass encoder exits with a non-zero status and no
\* cancellation was requested, the second-pass encoder is never spawned and
\* the session ends Failed.
C3_Pass1FailureStopsSession ==
    (returncode[1] = 1 /\ ~cancelled) =>
        /\ procState[2] = "none"
        /\ pc = "done" => (nError > 0 /\ nFinished = 0)

\* C4: finished is emitted only if the final-pass encoder exited with status
\* zero; when it exits non-zero without cancellation the session ends Failed
\* and no file the session wrote remains at output_path.
C4_CompletedOnlyOnZeroExit ==
    /\ nFinished > 0 => returncode[2] = 0
    /\ (pc = "done" /\ returncode[2] = 1 /\ ~cancelled) =>
           (nError > 0 /\ nFinished = 0 /\ outFile \notin {"partial", "complete"})

PreflightFails ==
    \/ ~ffmpegFound
    \/ ~info.ok
    \/ duration <= 0
    \/ video_bits <= 0
    \/ video_kbps < 50

C7_PreflightFailure ==
    (pc # "start" /\ PreflightFails) =>
        /\ pc = "done"
        /\ nError = 1
        /\ nFinished = 0
        /\ \A p \in Passes : procState[p] = "none"
        /\ statuses = <<>>
        /\ progress = <<>>
        /\ ~outputWritten
        /\ sidecarsWritten = {}

C7_Witness ==
    /\ pc = "done"
    /\ ffmpegFound
    /\ info.ok
    /\ duration > 0
    /\ video_bits > 0
    /\ video_kbps < 50
    /\ nError = 1

\* C8: at most one encoder process is alive at a time; the second-pass
\* process exists only once the first-pass process (if any) has been waited
\* on; and when _run_ffmpeg has returned, its process has been waited on.
C8_OneProcessAtATime ==
    /\ ~(Alive(1) /\ Alive(2))
    /\ procState[2] # "none" =>
           procState[1] = (IF is_av1 THEN "none" ELSE "reaped")
    /\ pc = "after" => procState[pass] = "reaped"

C8_Witness ==
    /\ procState[1] = "reaped"
    /\ procState[2] = "running"
    /\ returncode[1] = 0

\* C9: if the cancel flag is set while an encoder process is running and reads
\* keep returning (chunks or end of stream), then eventually the process has
\* been waited on, no failure detail was emitted for it, and the session is
\* over with Cancelled emitted.
C9_CancelEventuallyHonoured ==
    /\ (cancelled /\ procState[1] = "running") ~>
           (pc = "done" /\ CancelledEmitted /\ procState[1] = "reaped" /\ ~failDetail[1])
    /\ (cancelled /\ procState[2] = "running") ~>
           (pc = "done" /\ CancelledEmitted /\ procState[2] = "reaped" /\ ~failDetail[2])

C9_Witness ==
    /\ cancelAt = "pass2"
    /\ pc = "done"
    /\ returncode[2] = -15
    /\ CancelledEmitted

C11_ReportOutcome ==
    /\ pc = "cleanup" =>
          /\ ~OutputExists =>
                /\ nError = 1 /\ errorKind = "OutputMissing"
                /\ nFinished = 0 /\ result = NoResult
          /\ OutputExists =>
                /\ nFinished = 1 /\ nError = 0
                /\ result.size \in OutSizes /\ in_size \in InSizes
                /\ result.den > 0
                /\ IF in_size = 0
                   THEN result.num = 0
                   ELSE result.num * in_size =
                            (in_size - result.size) * 100 * result.den
    /\ errorKind = "OutputMissing" => nFinished = 0
    /\ (pc = "done" /\ errorKind = "OutputMissing") =>
          nError = 1 /\ Terminals = 1

\* The report found the file and the input was empty.
C11_Witness ==
    /\ pc = "cleanup" /\ OutputExists /\ in_size = 0 /\ nFinished = 1

(* ------------------------------------------------------------------ *)
(* The planner alone: run from its first line to the end of planning,  *)
(* on a wider set of requests                                          *)
(* ------------------------------------------------------------------ *)

PlanInit ==
    /\ video_codec \in VideoCodecs
    /\ audio_codec \in AudioCodecs
    /\ target_mb \in PlanTargetMBs
    /\ audio_bitrate \in PlanAudioBitrates
    /\ ffmpegFound \in BOOLEAN
    /\ info \in PlanInfos
    /\ Constructed

PlanNext ==
    \/ FfmpegNotFound
    \/ ProbeFailed
    \/ InvalidDuration
    \/ InsufficientBudget
    \/ BitrateTooLow
    \/ PlanOk

PlanSpec == PlanInit /\ [][PlanNext]_vars

Planned == plan # NoPlan

(* ------------------------------------------------------------------ *)
(* C12                                                                 *)
(* ------------------------------------------------------------------ *)

\* C12: whenever planning succeeds, the planned video bitrate k is the floor
\* of (target_mb*8*1024*1024 - audio_kbps*1000*duration) / duration / 1000,
\* that is k*1000*duration <= video_bits < (k+1)*1000*duration; and for 25 MB,
\* 600 s and 128 kbps the budget is 209,715,200 bits, the audio takes
\* 76,800,000, the video gets 132,915,200 and the plan is 221 kbps.
C12_PlannedBitrateIsFloor ==
    Planned =>
        /\ target_mb > 0 /\ duration > 0 /\ plan.audio_kbps >= 0
        /\ plan.video_kbps * 1000 * duration
              <= target_mb * 8 * 1024 * 1024 - plan.audio_kbps * 1000 * duration
        /\ target_mb * 8 * 1024 * 1024 - plan.audio_kbps * 1000 * duration
              < (plan.video_kbps + 1) * 1000 * duration
        /\ (target_mb = 25 /\ duration = 600 /\ plan.audio_kbps = 128) =>
              /\ TargetBits(target_mb) = 209715200
              /\ AudioBits(plan.audio_kbps, duration) = 76800000
              /\ video_bits = 132915200
              /\ plan.video_kbps = 221

\* The plan of the example request.
C12_Witness ==
    /\ Planned /\ pc = "spawn"
    /\ target_mb = 25 /\ duration = 600 /\ plan.audio_kbps = 128

(* ------------------------------------------------------------------ *)
(* C13                                                                 *)
(* ------------------------------------------------------------------ *)

\* The planner was reached and has decided.
PlannerDecided == pc # "start" /\ ffmpegFound /\ info.ok /\ duration > 0

\* C13: once the planner has decided, the error is the insufficient-budget
\* one exactly when target_bits - audio_bits <= 0, and the bitrate-too-low one
\* exactly when the budget is positive and its floored kbps is under 50, that
\* is the budget is under 50*1000*duration bits.  1 MB, 3600 s, 128 kbps fails
\* on the budget; 5 MB, 3600 s, 0 kbps computes 11 kbps and fails on the
\* bitrate.
C13_PlanningFailures ==
    PlannerDecided =>
        LET bits == target_mb * 8 * 1024 * 1024 - audio_kbps * 1000 * duration
        IN  /\ errorKind = "InsufficientBudget" <=> bits <= 0
            /\ errorKind = "BitrateTooLow" <=>
                   (bits > 0 /\ bits < MinVideoKbps * 1000 * duration)
            /\ errorKind \in {"InsufficientBudget", "BitrateTooLow"} =>
                   nError = 1 /\ ~Planned /\ pc = "done"
            /\ (target_mb = 1 /\ duration = 3600 /\ audio_kbps = 128) =>
                   errorKind = "InsufficientBudget"
            /\ (target_mb = 5 /\ duration = 3600 /\ audio_kbps = 0) =>
                   /\ VideoKbps(target_mb, audio_kbps, duration) = 11
                   /\ errorKind = "BitrateTooLow"

\* The first example: the audio alone exceeds the target.
C13_Witness ==
    /\ PlannerDecided /\ errorKind = "InsufficientBudget"
    /\ target_mb = 1 /\ duration = 3600 /\ audio_kbps = 128

(* ------------------------------------------------------------------ *)
(* C14                                                                 *)
(* ------------------------------------------------------------------ *)

\* The plan the same request would get with target size b: planning succeeds
\* for it and computes this bitrate.
PlansFor(b) ==
    /\ VideoBits(b, plan.audio_kbps, duration) > 0
    /\ VideoKbps(b, plan.audio_kbps, duration) >= MinVideoKbps

\* C14 as stated: a larger target size, everything else equal, always plans a
\* strictly larger video bitrate.
C14_StrictlyIncreasing ==
    Planned =>
        \A b \in PlanTargetMBs :
            (target_mb < b /\ PlansFor(b)) =>
                plan.video_kbps < VideoKbps(b, plan.audio_kbps, duration)

\* C14: the planned video bitrate is a function of the request (the plan made
\* is the one the planner's formula gives), and a larger target size,
\* everything else equal, never plans a smaller video bitrate.
C14_NonDecreasing ==
    Planned =>
        /\ plan.video_kbps = VideoKbps(target_mb, plan.audio_kbps, duration)
        /\ \A b \in PlanTargetMBs :
              (target_mb < b /\ PlansFor(b)) =>
                  plan.video_kbps <= VideoKbps(b, plan.audio_kbps, duration)

\* A plan for 62 MB over 10000 s without audio: 63 MB plans the same 52 kbps.
C14_Witness ==
    /\ Planned /\ target_mb = 62 /\ duration = 10000 /\ plan.audio_kbps = 0
    /\ PlansFor(63)
    /\ VideoKbps(63, plan.audio_kbps, duration) = plan.video_kbps

(* ------------------------------------------------------------------ *)
(* C15                                                                 *)
(* ------------------------------------------------------------------ *)

\* C15 as stated: the audio bitrate planned with is 0 under 'an', the fixed
\* bitrate under an encoding codec, and under 'copy' the source stream's
\* bitrate in kbps, or 128 when there is no bitrate or no audio stream.
C15_DefaultWheneverUnavailable ==
    Planned =>
        plan.audio_kbps =
            IF audio_codec = "an" THEN 0
            ELSE IF audio_codec # "copy" THEN audio_bitrate
            ELSE IF info.audio = "br64000" THEN 64 ELSE 128

\* C15: the audio bitrate planned with is 0 under 'an', the fixed bitrate
\* under an encoding codec, and under 'copy' the first audio stream's bitrate
\* in kbps, 128 when that stream reports none, and 0 when the source has no
\* audio stream.
C15_AudioKbpsPlanned ==
    Planned =>
        plan.audio_kbps =
            IF audio_codec = "an" THEN 0
            ELSE IF audio_codec # "copy" THEN audio_bitrate
            ELSE IF info.audio = "br64000" THEN 64
            ELSE IF info.audio = "nobitrate" THEN 128
            ELSE 0

\* A plan made under 'copy' for a source without audio stream.
C15_Witness ==
    /\ Planned /\ audio_codec = "copy" /\ info.audio = "nostream"
    /\ plan.audio_kbps = 0

(* ------------------------------------------------------------------ *)
(* C16                                                                 *)
(* ------------------------------------------------------------------ *)

\* C16: every encoder process that was spawned got the planned video bitrate
\* as -b:v, and this is at least 50 kbps; the libsvtav1 process got it as tbr
\* as well; and a request whose planned bitrate is under 50 kbps spawns no
\* process whatever its codec.
C16_SpawnedAboveFloor ==
    /\ \A p \in Passes :
          procState[p] # "none" =>
              /\ cmds[p].bv = plan.video_kbps
              /\ cmds[p].bv >= MinVideoKbps
              /\ is_av1 => (p = 2 /\ cmds[p].tbr = cmds[p].bv)
    /\ (ffmpegFound /\ info.ok /\ duration > 0 /\ video_kbps < MinVideoKbps) =>
          /\ \A p \in Passes : procState[p] = "none" /\ cmds[p] = NoCmd
          /\ pc \in {"start", "done"}

\* The single libsvtav1 process is running.
C16_Witness ==
    /\ is_av1 /\ procState[2] = "running" /\ procState[1] = "none"
    /\ cmds[2].tbr >= MinVideoKbps

(* ------------------------------------------------------------------ *)
(* The progress parser of _run_ffmpeg (lines 377-403), character by    *)
(* character                                                           *)
(* ------------------------------------------------------------------ *)

CR == "\r"

DigitVal == [c \in {"0", "1", "2", "3", "4", "5", "6", "7", "8", "9"} |->
                CASE c = "0" -> 0 [] c = "1" -> 1 [] c = "2" -> 2 [] c = "3" -> 3
                  [] c = "4" -> 4 [] c = "5" -> 5 [] c = "6" -> 6 [] c = "7" -> 7
                  [] c = "8" -> 8 [] c = "9" -> 9]

IsDigit(c) == c \in DOMAIN DigitVal

\* The lines an encoder writes: progress lines for 300 s and for 10 s, with
\* and without their carriage return, and a line without timestamp.
TimeEq == <<"t", "i", "m", "e", "=">>
Line300 == TimeEq \o <<"0", ":", "5", ":", "0", ".", "0">>
Line10 == TimeEq \o <<"0", ":", "0", ":", "1", "0", ".", "0">>
Pieces == {Line300, Line300 \o <<CR>>, Line10 \o <<CR>>, <<"x", CR>>}

\* The bounds of the parser's model: writes per encoder, and the most one
\* read returns (256 in the program).
MaxPieces == 4
ChunkSize == 3

ParseDurations == {20, 600}

\* The index of the first character from i on that is no digit (\d+ is greedy).
RECURSIVE DigitsEnd(_, _)
DigitsEnd(s, i) ==
    IF i <= Len(s) /\ IsDigit(s[i]) THEN DigitsEnd(s, i + 1) ELSE i

\* int() of the digits s[i..j-1]
RECURSIVE IntOf(_, _, _)
IntOf(s, i, j) ==
    IF j <= i THEN 0 ELSE IntOf(s, i, j - 1) * 10 + DigitVal[s[j - 1]]

Is(s, i, c) == i <= Len(s) /\ s[i] = c

\* time=(\d+):(\d+):(\d+)\.(\d+) matched at position i: the seconds
\* int(h) * 3600 + int(m) * 60 + int(s), or -1 when it does not match there.
MatchAt(s, i) ==
    IF i + 4 <= Len(s) /\ SubSeq(s, i, i + 4) = TimeEq
    THEN LET h0 == i + 5
             h1 == DigitsEnd(s, h0)
             m0 == h1 + 1
             m1 == DigitsEnd(s, m0)
             s0 == m1 + 1
             s1 == DigitsEnd(s, s0)
             f0 == s1 + 1
             f1 == DigitsEnd(s, f0)
         IN  IF /\ h1 > h0 /\ Is(s, h1, ":")
                /\ m1 > m0 /\ Is(s, m1, ":")
                /\ s1 > s0 /\ Is(s, s1, ".")
                /\ f1 > f0
             THEN IntOf(s, h0, h1) * 3600 + IntOf(s, m0, m1) * 60 + IntOf(s, s0, s1)
             ELSE -1
    ELSE -1

\* re.search: the leftmost match in the line, or -1 for None.
TimeMatch(line) ==
    LET hits == {i \in 1..Len(line) : MatchAt(line, i) >= 0}
    IN  IF hits = {} THEN -1
        ELSE MatchAt(line, CHOOSE i \in hits : \A j \in hits : i <= j)

\* buffer.split(b'\r'): lines[:-1], the lines that are complete ...
RECURSIVE CompleteLines(_)
CompleteLines(s) ==
    LET crs == {i \in 1..Len(s) : s[i] = CR}
    IN  IF crs = {} THEN <<>>
        ELSE LET i == CHOOSE k \in crs : \A j \in crs : k <= j
             IN  <<SubSeq(s, 1, i - 1)>> \o CompleteLines(SubSeq(s, i + 1, Len(s)))

\* ... and lines[-1], what follows the last carriage return.
LastLine(s) ==
    LET crs == {i \in 1..Len(s) : s[i] = CR}
    IN  IF crs = {} THEN s
        ELSE SubSeq(s, (CHOOSE k \in crs : \A j \in crs : j <= k) + 1, Len(s))

\* Variant: nothing is kept from one read to the next.
KeptBuffer_Dropped(s) == <<>>

\* buffer = lines[-1] (line 391)
KeptBuffer(s) == LastLine(s)

\* The percents emitted for a list of complete lines (lines 392-399).
RECURSIVE LineEvents(_, _)
LineEvents(lines, dur) ==
    IF lines = <<>> THEN <<>>
    ELSE LET current == TimeMatch(Head(lines))
         IN  (IF current >= 0 THEN <<Percent(current, dur)>> ELSE <<>>)
                 \o LineEvents(Tail(lines), dur)

\* The keywords of line 402, and str.lower() on the letters that begin them.
Keywords == {<<"e", "r", "r", "o", "r">>, <<"i", "n", "v", "a", "l", "i", "d">>,
             <<"f", "a", "i", "l", "e", "d">>, <<"u", "n", "k", "n", "o", "w", "n">>}

Lower(c) ==
    CASE c = "E" -> "e" [] c = "I" -> "i" [] c = "F" -> "f" [] c = "U" -> "u"
      [] c = "R" -> "r" [] c = "O" -> "o" [] OTHER -> c

\* any(kw in text.lower() for kw in [...])
HasKeyword(text) ==
    \E kw \in Keywords, i \in 1..Len(text) :
        /\ i + Len(kw) - 1 <= Len(text)
        /\ \A j \in 1..Len(kw) : Lower(text[i + j - 1]) = kw[j]

\* The texts logged as warnings for a list of complete lines (lines 393,
\* 401-403).
RECURSIVE LineWarnings(_)
LineWarnings(lines) ==
    IF lines = <<>> THEN <<>>
    ELSE (IF HasKeyword(Strip(Head(lines))) THEN <<Strip(Head(lines))>> ELSE <<>>)
             \o LineWarnings(Tail(lines))

\* One turn of the read loop with data in the pipe: proc.stderr.read(256)
\* returns its next n characters (lines 384-403).
ReadChunk(n) ==
    /\ pc = "read"
    /\ n \in 1..Min(ChunkSize, Len(stream))
    /\ LET data == buffer \o SubSeq(stream, 1, n)
           emitted == LineEvents(CompleteLines(data), duration)
       IN  /\ buffer' = KeptBuffer(data)
           /\ bufTail' = (Strip(KeptBuffer(data)) # <<>>)
           /\ progress' = progress \o emitted
           /\ warned' = warned \o LineWarnings(CompleteLines(data))
           /\ events' = events + Len(emitted)
    /\ stream' = SubSeq(stream, n + 1, Len(stream))
    /\ pc' = "loop"
    /\ UNCHANGED <<request, peers, gui, built, diag, written, detailText, pass,
                   cancelled, procs, files,
                   nError, nFinished, statuses, failDetail, outcome, cancelAt,
                   examined>>

\* The running encoder writes one more piece of text to its stderr.
ProcWritesDiag(piece) ==
    /\ procState[pass] = "running"
    /\ written < MaxPieces
    /\ diag' = diag \o piece
    /\ stream' = stream \o piece
    /\ written' = written + 1
    /\ UNCHANGED <<request, peers, gui, built, buffer, warned, detailText, pc, pass,
                   cancelled, bufTail, events,
                   procs, files, signals, cancelAt, examined>>

\* A two-pass request that plans, and whose first encoder is followed through
\* its diagnostic stream.
ParseInit ==
    /\ video_codec = "libx264"
    /\ audio_codec = "an"
    /\ target_mb = 25
    /\ audio_bitrate = 128
    /\ ffmpegFound = TRUE
    /\ info \in [ok : {TRUE}, duration : ParseDurations, audio : {"nostream"}]
    /\ Constructed

ParseNext ==
    \/ PlanOk
    \/ SpawnOk
    \/ LoopContinue
    \/ \E n \in 1..ChunkSize : ReadChunk(n)
    \/ EndOfStream
    \/ \E piece \in Pieces : ProcWritesDiag(piece)
    \/ \E rc \in ExitCodes : ProcExit(1, rc)

ParseSpec == ParseInit /\ [][ParseNext]_vars

\* What has been read of the stream so far.
Consumed == SubSeq(diag, 1, Len(diag) - Len(stream))

\* The percents a stream gives when it is read in one piece.
EventsOf(s) == LineEvents(CompleteLines(s), duration)

\* The progress events of the first pass read from the stream (the 100 emitted
\* after the loop left aside).
StreamProgress ==
    IF pc = "after" THEN SubSeq(progress, 1, Len(progress) - 1) ELSE progress

(* ------------------------------------------------------------------ *)
(* C17                                                                 *)
(* ------------------------------------------------------------------ *)

\* C17: however the reads cut the stream, the progress events emitted so far
\* are those of the text read so far taken in one piece, one per complete
\* line with a timestamp, and the buffer holds the text after the last
\* carriage return read.
C17_EventsIndependentOfChunks ==
    procState[1] # "none" =>
        /\ StreamProgress = EventsOf(Consumed)
        /\ pc \in {"loop", "read", "after"} => buffer = LastLine(Consumed)

\* A progress line longer than any read has been read, piece by piece, and
\* has given its one event.
C17_Witness ==
    /\ pc = "loop"
    /\ Len(Line300) > ChunkSize
    /\ Consumed = Line300 \o <<CR>>
    /\ progress = <<Percent(300, duration)>>

(* ------------------------------------------------------------------ *)
(* C18                                                                 *)
(* ------------------------------------------------------------------ *)

\* The seconds of the timestamps matched in a list of complete lines.
RECURSIVE MatchedTimes(_)
MatchedTimes(lines) ==
    IF lines = <<>> THEN <<>>
    ELSE (IF TimeMatch(Head(lines)) >= 0 THEN <<TimeMatch(Head(lines))>> ELSE <<>>)
             \o MatchedTimes(Tail(lines))

\* C18: every percent emitted during the first pass lies in 0..100, the one
\* emitted for a matched timestamp of elapsed seconds is
\* min(100, floor(elapsed / duration * 100)), and no percent is smaller than
\* one emitted before it in the pass.
C18_PercentsClampedAndMonotonic ==
    procState[1] # "none" =>
        LET times == MatchedTimes(CompleteLines(Consumed))
        IN  /\ \A i \in DOMAIN progress : progress[i] \in 0..100
            /\ Len(StreamProgress) = Len(times)
            /\ \A i \in DOMAIN times :
                  StreamProgress[i] = Min(100, (times[i] * 100) \div duration)
            /\ \A i, j \in DOMAIN progress : i < j => progress[i] <= progress[j]

(* ------------------------------------------------------------------ *)
(* C19                                                                 *)
(* ------------------------------------------------------------------ *)

\* How many progress events were emitted before the current encoder's own.
BeforePass == Len(progress) - events

\* C19 as stated: while any pass is being read, the progress event just
\* before the pass's own events is a 0.
C19_ResetAtEveryPass ==
    pc \in {"loop", "read"} => (BeforePass >= 1 /\ progress[BeforePass] = 0)

\* C19: while the second pass, or the single libsvtav1 pass, is being read,
\* the progress event just before the pass's own events is a 0, emitted after
\* every event of the first pass; while the first pass is being read no
\* progress event precedes its own.
C19_ResetBeforeFinalPass ==
    pc \in {"loop", "read"} =>
        /\ pass = 2 => (BeforePass >= 1 /\ progress[BeforePass] = 0)
        /\ pass = 1 => BeforePass = 0

\* The second of two passes has reported a timestamp after the reset.
C19_Witness ==
    /\ pc = "loop" /\ pass = 2 /\ ~is_av1 /\ events = 1
    /\ BeforePass >= 2 /\ progress[BeforePass] = 0

(* ------------------------------------------------------------------ *)
(* C20                                                                 *)
(* ------------------------------------------------------------------ *)

\* C20: when _run_ffmpeg has returned from a pass whose encoder exited with
\* status 0 and no cancellation was requested, the last progress event is
\* 100; and the first of two passes, once the second is being read, has 100
\* as its last progress event, just before the 0 that starts the second.
C20_FinalProgressIs100 ==
    /\ (pc = "after" /\ returncode[pass] = 0 /\ ~cancelled) =>
          (progress # <<>> /\ progress[Len(progress)] = 100)
    /\ (pass = 2 /\ ~is_av1 /\ pc \in {"loop", "read"} /\ returncode[1] = 0) =>
          (BeforePass >= 2 /\ progress[BeforePass - 1] = 100)

\* A pass has ended well after a last timestamp at half of the duration.
C20_Witness ==
    /\ pc = "after" /\ returncode[pass] = 0 /\ ~cancelled
    /\ Len(progress) >= 2
    /\ progress[Len(progress) - 1] = 50
    /\ progress[Len(progress)] = 100

(* ------------------------------------------------------------------ *)
(* Two sessions: this worker and a second two-pass session, followed   *)
(* through the pass-log files it writes, needs and removes             *)
(* ------------------------------------------------------------------ *)

\* os.path.dirname(self.output_path) of this session, and the directories
\* the other session's output may lie in.
OurDir == "A"
PeerDirs == {"A", "B"}
PeerCodec == "libx264"

\* passlog_base + suffix for every suffix (lines 282-292, 359-361): the paths a
\* session with its output in dir writes, reads or removes.
PassLogPaths(dir) == {<<dir, suffix>> : suffix \in Suffixes}

\* The pass-log files that exist in the other session's directory.
PeerLogs == IF peer.dir = OurDir THEN sidecars ELSE peerFiles

\* The other session is started on an output in directory d.
PeerStarts(d) ==
    /\ peer.phase = "none"
    /\ peer' = [phase |-> "pass1", dir |-> d]
    /\ UNCHANGED <<request, gui, parser, built, pc, pass, cancelled, bufTail, events,
                   procs, files, signals, peerFiles, cancelAt, examined>>

\* Its first pass writes the pass log at its passlog_base and ends; its second
\* pass is started and reads that log.
PeerPass1Ends ==
    /\ peer.phase = "pass1"
    /\ peer' = [peer EXCEPT !.phase = "pass2"]
    /\ IF peer.dir = OurDir
       THEN sidecars' = sidecars \cup PassLogFiles(PeerCodec) /\ UNCHANGED peerFiles
       ELSE peerFiles' = peerFiles \cup PassLogFiles(PeerCodec) /\ UNCHANGED sidecars
    /\ UNCHANGED <<request, gui, parser, built, pc, pass, cancelled, bufTail, events,
                   procs, outFile, outputWritten, sidecarsWritten, cleanupAttempted,
                   signals, cancelAt, examined>>

\* Its second pass ends.
PeerPass2Ends ==
    /\ peer.phase = "pass2"
    /\ peer' = [peer EXCEPT !.phase = "cleanup"]
    /\ UNCHANGED <<request, gui, parser, built, pc, pass, cancelled, bufTail, events,
                   procs, files, signals, peerFiles, cancelAt, examined>>

\* Its cleanup loop (lines 358-364) removes every passlog_base + suffix.
PeerCleanup ==
    /\ peer.phase = "cleanup"
    /\ peer' = [peer EXCEPT !.phase = "done"]
    /\ IF peer.dir = OurDir
       THEN sidecars' = {} /\ UNCHANGED peerFiles
       ELSE peerFiles' = {} /\ UNCHANGED sidecars
    /\ UNCHANGED <<request, gui, parser, built, pc, pass, cancelled, bufTail, events,
                   procs, outFile, outputWritten, sidecarsWritten, cleanupAttempted,
                   signals, cancelAt, examined>>

Peer ==
    \/ \E d \in PeerDirs : PeerStarts(d)
    \/ PeerPass1Ends
    \/ PeerPass2Ends
    \/ PeerCleanup

\* A two-pass request that plans and is not cancelled.
PairInit ==
    /\ video_codec = "libx264"
    /\ audio_codec = "an"
    /\ target_mb = 25
    /\ audio_bitrate = 128
    /\ ffmpegFound = TRUE
    /\ info = [ok |-> TRUE, duration |-> 600, audio |-> "nostream"]
    /\ Constructed

PairNext ==
    \/ PlanOk
    \/ SpawnOk
    \/ LoopContinue
    \/ ReadQuietChunk
    \/ EndOfStream
    \/ AfterPass1Continue
    \/ AfterPass2Continue
    \/ Report
    \/ Cleanup
    \/ Encoder
    \/ Peer

PairSpec == PairInit /\ [][PairNext]_vars

(* ------------------------------------------------------------------ *)
(* C21                                                                 *)
(* ------------------------------------------------------------------ *)

\* C21: while the second pass of the other session runs, the pass log its
\* first pass wrote is still there: no cleanup of this session has removed it.
C21_PassLogsExclusivelyOwned ==
    peer.phase = "pass2" => PassLogFiles(PeerCodec) \subseteq PeerLogs

(* ------------------------------------------------------------------ *)
(* C22                                                                 *)
(* ------------------------------------------------------------------ *)

\* The session got past the check that follows its final pass.
PassedFinalCheck == pc \in {"report", "cleanup"} \/ nFinished = 1

\* C22: under libx264, libx265 and libvpx-vp9 the second encoder is spawned
\* only when the first has been waited on; the first was given pass 1, the
\* pass log, the null sink and no audio, the second pass 2, the pass log, the
\* output path and the audio of the request; a session that got past its
\* final check has run both.  Under libsvtav1 no first encoder is ever
\* spawned; the only one is given the output path and the target rate as tbr,
\* and neither a pass number nor a pass log.  No encoder is spawned twice.
C22_PassSequence ==
    /\ pc = "spawn" => procState[pass] = "none"
    /\ procState[1] # "none" =>
          /\ cmds[1].passArg = 1 /\ cmds[1].passlog
          /\ cmds[1].sink = "null" /\ cmds[1].audio = "an"
    /\ ~is_av1 =>
          /\ procState[2] # "none" =>
                /\ procState[1] = "reaped"
                /\ cmds[2].passArg = 2 /\ cmds[2].passlog
                /\ cmds[2].sink = "output" /\ cmds[2].audio = AudioArg
          /\ PassedFinalCheck => \A p \in Passes : procState[p] = "reaped"
    /\ is_av1 =>
          /\ procState[1] = "none" /\ cmds[1] = NoCmd
          /\ procState[2] # "none" =>
                /\ cmds[2].passArg = 0 /\ ~cmds[2].passlog
                /\ cmds[2].sink = "output" /\ cmds[2].audio = AudioArg
                /\ cmds[2].tbr = plan.video_kbps /\ cmds[2].bv = plan.video_kbps
          /\ PassedFinalCheck => procState[2] = "reaped"

\* A two-pass session that encodes audio has finished.
C22_Witness ==
    /\ ~is_av1 /\ audio_codec = "aac" /\ nFinished = 1 /\ ~cancelled
    /\ procState[1] = "reaped" /\ procState[2] = "reaped"

(* ------------------------------------------------------------------ *)
(* The log lines of _run_ffmpeg: the first encoder of a session,       *)
(* followed through a stream with messages in it                       *)
(* ------------------------------------------------------------------ *)

\* What such an encoder writes: a banner longer than the tail that is kept,
\* text that ends with a carriage return, as a progress line does, and a
\* message that ends with a newline.
Banner == [i \in 1..(TailLimit + 1) |-> IF i = 1 THEN "b" ELSE "x"]
ErrorWord == <<"E", "r", "r", "o", "r">>
LogPieces == {<<"x", CR>>, ErrorWord \o <<"\n">>}

\* The banner comes first, if at all.
ProcWritesBanner ==
    /\ written = 0
    /\ ProcWritesDiag(Banner)

LogInit ==
    /\ video_codec = "libx264"
    /\ audio_codec = "an"
    /\ target_mb = 25
    /\ audio_bitrate = 128
    /\ ffmpegFound = TRUE
    /\ info = [ok |-> TRUE, duration |-> 600, audio |-> "nostream"]
    /\ Constructed

LogNext ==
    \/ PlanOk
    \/ SpawnOk
    \/ LoopContinue
    \/ LoopCancelled
    \/ \E n \in 1..ChunkSize : ReadChunk(n)
    \/ EndOfStream
    \/ Cancel
    \/ ProcWritesBanner
    \/ \E piece \in LogPieces : ProcWritesDiag(piece)
    \/ \E rc \in ExitCodes : ProcExit(1, rc)

LogSpec == LogInit /\ [][LogNext]_vars

\* The texts that went out with the warning mark: those of line 403 and the
\* tail of line 409.
Surfaced == warned \o (IF detailText # <<>> THEN <<detailText>> ELSE <<>>)

\* Some text sent out contains the whole of text.
Within(text, whole) ==
    \E i \in 1..Len(whole) :
        i + Len(text) - 1 <= Len(whole) /\ SubSeq(whole, i, i + Len(text) - 1) = text

(* ------------------------------------------------------------------ *)
(* C23                                                                 *)
(* ------------------------------------------------------------------ *)

\* C23: when _run_ffmpeg has returned from an encoder whose stream it read to
\* the end, every line of the stream with a keyword in it, the text after the
\* last carriage return included, is in a warning that was logged, whatever
\* the exit status.
C23_KeywordLinesSurfaced ==
    (pc = "after" /\ examined[1] # "no") =>
        \A line \in {Strip((CompleteLines(diag) \o <<LastLine(diag)>>)[i]) :
                         i \in 1..(Len(CompleteLines(diag)) + 1)} :
            HasKeyword(line) =>
                \E k \in DOMAIN Surfaced : Within(LastChars(line, TailLimit), Surfaced[k])

(* ------------------------------------------------------------------ *)
(* C24                                                                 *)
(* ------------------------------------------------------------------ *)

\* C24: when _run_ffmpeg has returned from the first encoder: if the encoder
\* exited by itself with a non-zero status and the cancel flag was clear when
\* read, the failure detail logged is the text after the last carriage return
\* of the stream, stripped, cut to its last 500 characters (nothing is logged
\* when that text is empty); if the status is zero, or the flag was set, or
\* the encoder was terminated, no failure detail is logged.
C24_FailureDetail ==
    pc = "after" /\ pass = 1 =>
        IF examined[1] = "clear" /\ returncode[1] # 0
        THEN /\ detailText = LastChars(Strip(LastLine(diag)), TailLimit)
             /\ Len(detailText) <= TailLimit
             /\ failDetail[1] = (detailText # <<>>)
        ELSE detailText = <<>> /\ ~failDetail[1]

\* An encoder failed after a banner longer than the tail that is kept.
C24_Witness ==
    /\ pc = "after" /\ returncode[1] = 1 /\ examined[1] = "clear"
    /\ Len(buffer) > TailLimit
    /\ Len(detailText) = TailLimit

(* ------------------------------------------------------------------ *)
(* The window: the slots connected to finished and error (lines        *)
(* 742-743), run by the GUI thread some time after the worker emitted  *)
(* ------------------------------------------------------------------ *)

\* on_finished (lines 752-759)
OnFinished ==
    /\ nFinished > 0
    /\ "finished" \notin handled
    /\ handled' = handled \cup {"finished"}
    /\ compress_btn' = TRUE
    /\ UNCHANGED <<request, peers, parser, built, pc, pass, cancelled, bufTail, events,
                   procs, files, signals, cancelAt, examined>>

\* on_error (lines 761-765)
OnError ==
    /\ nError > 0
    /\ "error" \notin handled
    /\ handled' = handled \cup {"error"}
    /\ compress_btn' = TRUE
    /\ UNCHANGED <<request, peers, parser, built, pc, pass, cancelled, bufTail, events,
                   procs, files, signals, cancelAt, examined>>

Gui == OnFinished \/ OnError

\* start_compression has disabled the button, built the worker of a two-pass
\* request and started it.
GuiInit ==
    /\ video_codec = "libx264"
    /\ audio_codec \in {"aac", "an"}
    /\ target_mb \in TargetMBs
    /\ audio_bitrate \in AudioBitrates
    /\ ffmpegFound \in BOOLEAN
    /\ info \in Infos
    /\ info.audio = "nostream"
    /\ Constructed

GuiNext == Next \/ Gui

GuiSpec == GuiInit /\ [][GuiNext]_vars

\* The worker thread and the GUI thread both keep running.
FairGuiSpec == GuiSpec /\ WF_vars(Worker) /\ WF_vars(Gui)

(* ------------------------------------------------------------------ *)
(* C25                                                                 *)
(* ------------------------------------------------------------------ *)

\* C25: whichever way run has returned, the Compress button is eventually
\* enabled again.
C25_ButtonEventuallyEnabled == (pc = "done") ~> compress_btn

(* ------------------------------------------------------------------ *)
(* C27                                                                 *)
(* ------------------------------------------------------------------ *)

\* C27: the Compress button is enabled only when run, its cleanup of the pass
\* logs included, has returned.
C27_ButtonOnlyAfterRunReturned == compress_btn => pc = "done"

(* ------------------------------------------------------------------ *)
(* C26                                                                 *)
(* ------------------------------------------------------------------ *)

\* cancel() was called before run made the check that follows the final pass.
CancelledBeforeFinalCheck == cancelAt \notin {"never", "reported"}

====
